---- MODULE Spec2Model ----
(***************************************************************************)
(* Model of quickshell/assets/beat_detector.cpp: the EnhancedBeatDetector  *)
(* class (frame accumulation, silence gate, beat decision, BPM smoothing,  *)
(* bounded histories, stop flag) and the life cycle driven by main().      *)
(*                                                                         *)
(* Numeric representation.  The program computes in single-precision       *)
(* floats; the model uses fixed point:                                     *)
(*   amplitudes    in units of 1/1000   (0.01  is 10, 0.5 is 500)          *)
(*   confidences   in units of 1/100    (0.5   is 50)                      *)
(*   BPM values    in units of 1/BpmUnit (128.0 is 1280)                   *)
(* Every float operation that rounds (each product of the moving average)  *)
(* rounds to the nearest representable value here as well.                 *)
(***************************************************************************)
EXTENDS Integers, Sequences, FiniteSets, TLC

\* ---------------------------------------------------------------- bounds
FrameSize == 2          \* buf_size_: samples per analysis frame
MaxSamples == 6         \* samples delivered in one run of the frame specifications
MaxSignals == 2         \* interrupt signals delivered in one run
MaxCalls == 3           \* callbacks in one run of the life-cycle specification
MaxDecideFrames == 4    \* frames delivered in one run of the decision specifications
MaxBeatFrames == 23     \* frames delivered in one run of the history specification
MaxRejects == 1         \* frames not accepted as a beat in the history specification
MaxScenarioFrames == 48 \* frames of the alternating silent/loud scenario
MaxExtraCalls == 2      \* callbacks beyond the cap of the telemetry list
MaxVarianceFrames == 7  \* frames delivered in one run of the variance specification
MaxArgs == 2            \* command-line arguments

\* ------------------------------------------------------ program constants
SILENCE_THRESHOLD == 10      \* 0.01f, in 1/1000
BPM_MIN == 60
BPM_MAX == 200
CONFIDENCE_THRESHOLD == 50   \* 0.5f, in 1/100
BPM_HISTORY_SIZE == 20
STABILITY_WINDOW == 5
TELEMETRY_CAP == 1000
BPM_VARIANCE_LIMIT == 5
VARIANCE_UNKNOWN == 999      \* get_bpm_variance() of an empty window
ONSET_BASE == 150            \* 0.15f, in 1/1000
ONSET_GAIN == 150            \* 0.15f, in 1/1000
ONSET_CAP == 300             \* 0.3f, in 1/1000
BUFFER_DEFAULT == 128
BUFFER_MIN == 64
BUFFER_MAX == 8192
LIMB == 65536                \* 2^16: an unsigned long is three limbs hi, mid, lo
BpmUnit == 10                \* resolution of a BPM value: 1/10 BPM
EMA_KEEP == 7                \* 0.7f, in 1/10
EMA_TAKE == 3                \* 0.3f, in 1/10

VARIABLES
  \* the main thread
  main_pc,              \* position of main(): see MainPcs
  init_pc,              \* position inside initialize()
  exit_code,            \* -1 while the process runs
  \* statics
  should_quit_,
  instance_,            \* TRUE when instance_ points at the detector
  \* configuration
  enable_logging_, enable_performance_stats_, enable_pitch_detection_,
  \* PipeWire and aubio handles: "null", "live" or "destroyed"
  main_loop_, context_, core_, stream_, aubio, log_open,
  loop_running,         \* the running flag of the pw_main_loop
  quit_early,           \* pw_main_loop_quit was called before pw_main_loop_run
  stream_state,
  \* the frame pipeline
  sample_accumulator_, accumulated_samples_, input_buffer_,
  frame_count_, total_beats_, total_onsets_,
  smoothed_bpm_, recent_bpms_, bpm_stability_, process_times_,
  current_bpm, tempo_confidence, is_onset,   \* locals of the last analysed frame
  \* the callback process_audio()
  pa_pc,                \* "idle" or "loop"
  chunk,                \* samples of the dequeued buffer not yet read
  \* history of the run (observation only)
  delivered,            \* every sample of every dequeued chunk, in arrival order
  frames,               \* every frame copied into input_buffer_, in order
  events,               \* every BeatEvent, in order
  engine_calls,         \* invocations of the Analysis Engine
  log_lines,            \* data lines written to the log file
  dequeued, queued,     \* buffers taken from / returned to the stream
  signals,              \* signals delivered so far
  lost_signals,         \* signals whose handler found no instance
  stats_printed,        \* print_final_stats wrote the statistics
  calls_after_stop,     \* process_audio invocations that found should_quit_ set
  entered_run,          \* pw_main_loop_run was called
  init_failed,          \* initialize() returned false
  quit_on_destroyed,    \* pw_main_loop_quit was called on a destroyed main loop
  held_at_stop,         \* accumulated_samples_ when should_quit_ was first set
  frames_at_stop,       \* frames handed to analysis when should_quit_ was first set
  elapsed,              \* process_time of every callback that reached line 546
  onset_thresholds,     \* every aubio_onset_set_threshold of process_audio
  \* the locals of main() while it reads the command line
  argv,                 \* the arguments argv[1..argc-1]
  arg_i,                \* the index i of the argument loop
  buffer_size,          \* the uint32_t buffer_size
  \* the resources of the detector (observation only)
  acquired,             \* how often each resource was obtained
  released              \* how often each resource was given back

lifeVars == <<main_pc, init_pc, exit_code, should_quit_, instance_,
              enable_logging_, enable_performance_stats_, enable_pitch_detection_,
              main_loop_, context_, core_, stream_, aubio, log_open,
              loop_running, quit_early, stream_state>>
pipeVars == <<sample_accumulator_, accumulated_samples_, input_buffer_,
              frame_count_, total_beats_, total_onsets_,
              smoothed_bpm_, recent_bpms_, bpm_stability_,
              current_bpm, tempo_confidence, is_onset>>
cbVars == <<pa_pc, chunk, process_times_>>
obsVars == <<delivered, frames, events, engine_calls, log_lines, dequeued, queued,
             signals, lost_signals, stats_printed, calls_after_stop, entered_run,
             init_failed, quit_on_destroyed, held_at_stop, frames_at_stop,
             elapsed, onset_thresholds>>
argVars == <<argv, arg_i, buffer_size>>
resVars == <<acquired, released>>
vars == <<lifeVars, pipeVars, cbVars, obsVars, argVars, resVars>>

\* ------------------------------------------------------------- helpers
Abs(x) == IF x < 0 THEN -x ELSE x

Max(a, b) == IF a > b THEN a ELSE b

Min(a, b) == IF a < b THEN a ELSE b

\* nearest integer to n / d for n >= 0, d > 0 (ties away from zero)
RoundDiv(n, d) == (2 * n + d) \div (2 * d)

\* all sequences over S of length lo..hi
SeqsOf(S, lo, hi) == UNION {[1..n -> S] : n \in lo..hi}

\* max_amplitude of lines 432-437
RECURSIVE PeakAmplitude(_)
PeakAmplitude(f) ==
  IF f = <<>> THEN 0 ELSE Max(Abs(Head(f)), PeakAmplitude(Tail(f)))


\* ------------------------------------------------- the decision pipeline
\* a frame is complete only once the write offset has passed buf_size_
FrameFull_Late(n) == n > FrameSize

\* line 428: a frame is complete when the write offset reaches buf_size_
FrameFull(n) == n >= FrameSize

\* the skip path leaves the write offset where it is (line 448 missing)
OffsetAfterFrame_SkipKeeps(n, silent) == IF silent THEN n ELSE 0

\* lines 448 and 540: the write offset after a full frame of n samples, on the
\* skip path (silent) and on the analysis path
OffsetAfterFrame(n, silent) == 0

\* the gate also skips a frame whose peak equals the threshold
IsSilent_Inclusive(peak) == peak <= SILENCE_THRESHOLD

\* line 443: the silence gate
IsSilent(peak) == peak < SILENCE_THRESHOLD

\* the validity range with its bounds included
InTempoRange_Inclusive(bpm) == bpm >= BPM_MIN * BpmUnit /\ bpm <= BPM_MAX * BpmUnit

\* line 472: the validity range of a tempo reading (both bounds strict)
InTempoRange(bpm) == bpm > BPM_MIN * BpmUnit /\ bpm < BPM_MAX * BpmUnit

\* a reading outside the range replaces the estimate whenever it comes
Bootstrap_Always(s, bpm) == bpm

\* lines 474-476: a reading outside the validity range starts the estimate
\* when there is none (smoothed_bpm_ == 0.0f) and is ignored otherwise
Bootstrap(s, bpm) == IF s = 0 THEN bpm ELSE s

\* the old estimate is added unweighted (the factor 0.7f missing)
SmoothBpm_Unweighted(s, bpm) ==
  IF InTempoRange(bpm)
  THEN s + RoundDiv(EMA_TAKE * bpm, EMA_KEEP + EMA_TAKE)
  ELSE IF s = 0 THEN bpm ELSE s

\* lines 472-476: BPM smoothing; each product is rounded, as each float
\* product is, and 0.7f + 0.3f is exactly 1
SmoothBpm(s, bpm) ==
  IF InTempoRange(bpm)
  THEN RoundDiv(EMA_KEEP * s, EMA_KEEP + EMA_TAKE)
       + RoundDiv(EMA_TAKE * bpm, EMA_KEEP + EMA_TAKE)
  ELSE Bootstrap(s, bpm)

\* the acceptance rule with a confidence of exactly 0.5 accepted
IsBeat_Inclusive(onset, conf) == onset /\ conf >= CONFIDENCE_THRESHOLD

\* line 479: the beat acceptance rule
IsBeat(onset, conf) == onset /\ conf > CONFIDENCE_THRESHOLD

\* the oldest element is erased as soon as the container is full (>= for >)
PushBounded_EvictsEarly(q, x, cap) ==
  LET a == Append(q, x) IN IF Len(a) >= cap THEN Tail(a) ELSE a

\* lines 495-498 and 501-504: push_back, then erase(begin()) when over capacity
PushBounded(q, x, cap) ==
  LET a == Append(q, x) IN IF Len(a) > cap THEN Tail(a) ELSE a

\* sum of the elements of a sequence of numbers
RECURSIVE SumSeq(_)
SumSeq(q) == IF q = <<>> THEN 0 ELSE Head(q) + SumSeq(Tail(q))

\* the largest r in lo..hi with r * r <= n
RECURSIVE SqrtBetween(_, _, _)
SqrtBetween(n, lo, hi) ==
  IF lo >= hi THEN lo
  ELSE LET mid == (lo + hi + 1) \div 2
       IN IF mid * mid <= n THEN SqrtBetween(n, mid, hi)
                             ELSE SqrtBetween(n, lo, mid - 1)

\* std::sqrt of n >= 0, truncated to an integer
ISqrt(n) == SqrtBetween(n, 0, Min(n, 46340))

\* lines 433-438: rms_energy of a frame, in 1/1000 (the squares are in 1/10^6)
RmsEnergy(f) == ISqrt(SumSeq([i \in DOMAIN f |-> f[i] * f[i]]) \div Len(f))

\* the threshold without its cap (std::min missing)
AdaptiveThreshold_Uncapped(rms) == ONSET_BASE + RoundDiv(ONSET_GAIN * rms, 1000)

\* lines 453-454: the value handed to aubio_onset_set_threshold, in 1/1000
AdaptiveThreshold(rms) ==
  Min(ONSET_BASE + RoundDiv(ONSET_GAIN * rms, 1000), ONSET_CAP)

\* the sample standard deviation (divisor n - 1)
BpmVariance_Sample(w) ==
  IF w = <<>> THEN VARIANCE_UNKNOWN * BpmUnit
  ELSE LET n == Len(w)
           sum == SumSeq(w)
           sq == SumSeq([i \in DOMAIN w |-> (n * w[i] - sum) * (n * w[i] - sum)])
       IN IF n = 1 THEN 0 ELSE ISqrt(sq \div (n * n * (n - 1)))

\* lines 306-317: get_bpm_variance(), in 1/BpmUnit.  With mean = sum / n the
\* code returns sqrt(SUM (x - mean)^2 / n); here every term is scaled by n so
\* that the mean needs no division: SUM (n*x - sum)^2 / n^3 is the same number
BpmVariance(w) ==
  IF w = <<>> THEN VARIANCE_UNKNOWN * BpmUnit
  ELSE LET n == Len(w)
           sum == SumSeq(w)
           sq == SumSeq([i \in DOMAIN w |-> (n * w[i] - sum) * (n * w[i] - sum)])
       IN ISqrt(sq \div (n * n * n))

\* the variance is taken before the beat's value enters the window
WindowAtVariance_BeforePush(before, after) == before

\* lines 501-506: get_bpm_variance() is called after the push_back and the
\* eviction, so it reads the window as they left it (after), not as it was
\* when the frame came in (before)
WindowAtVariance(before, after) == after

\* line 507: is_stable
IsStable(variance) == variance < BPM_VARIANCE_LIMIT * BpmUnit

\* the counter follows the onset flag of the engine
OnsetsAfterFrame_OnsetOnly(n, onset) == IF onset THEN n + 1 ELSE n

\* line 539: total_onsets_ after an analysed frame, whatever the engine said
OnsetsAfterFrame(n, onset) == n + 1

\* a data line for every analysed frame
LogLinesAfterFrame_EveryFrame(n, beat, enabled, open) ==
  IF enabled /\ open THEN n + 1 ELSE n

\* lines 491 and 522-536: the data lines in the log file after an analysed
\* frame: one more when the frame is a beat, logging is enabled and the file
\* is open
LogLinesAfterFrame(n, beat, enabled, open) ==
  IF beat /\ enabled /\ open THEN n + 1 ELSE n

\* lines 429-540: the body of `if (accumulated_samples_ >= buf_size_)` for the
\* frame f, the Analysis Engine answering out = [bpm, conf, onset]
ProcessFrame(f, out) ==
  LET peak == PeakAmplitude(f)
      s == SmoothBpm(smoothed_bpm_, out.bpm)
      beat == IsBeat(out.onset, out.conf)
      window == PushBounded(bpm_stability_, s, STABILITY_WINDOW)
      variance == BpmVariance(WindowAtVariance(bpm_stability_, window))
  IN /\ input_buffer_' = f
     /\ frames' = Append(frames, f)
     /\ frame_count_' = frame_count_ + 1
     /\ accumulated_samples_' = OffsetAfterFrame(Len(f), IsSilent(peak))
     /\ IF IsSilent(peak)
        THEN UNCHANGED <<total_beats_, total_onsets_, smoothed_bpm_, recent_bpms_,
                         bpm_stability_, current_bpm, tempo_confidence, is_onset,
                         events, engine_calls, log_lines, onset_thresholds>>
        ELSE /\ engine_calls' = engine_calls + 1
             /\ onset_thresholds' =
                  Append(onset_thresholds,
                         [frame |-> frame_count_ + 1,
                          threshold |-> AdaptiveThreshold(RmsEnergy(f))])
             /\ current_bpm' = out.bpm
             /\ tempo_confidence' = out.conf
             /\ is_onset' = out.onset
             /\ smoothed_bpm_' = s
             /\ total_onsets_' = OnsetsAfterFrame(total_onsets_, out.onset)
             /\ log_lines' = LogLinesAfterFrame(log_lines, beat, enable_logging_,
                                                log_open)
             /\ IF beat
                THEN /\ total_beats_' = total_beats_ + 1
                     /\ recent_bpms_' = PushBounded(recent_bpms_, s, BPM_HISTORY_SIZE)
                     /\ bpm_stability_' = window
                     /\ events' = Append(events,
                                         [frame |-> frame_count_ + 1, bpm |-> s,
                                          conf |-> out.conf, peak |-> peak,
                                          variance |-> variance,
                                          stable |-> IsStable(variance)])
                ELSE UNCHANGED <<total_beats_, recent_bpms_, bpm_stability_,
                                 events>>

\* the buffer is not handed back
QueueBuffer_Dropped(n) == n

\* lines 417 and 544: pw_stream_queue_buffer; n buffers were returned before
QueueBuffer(n) == n + 1

\* the callback also gives up once the telemetry list is full
QuitRequested_WhenFull ==
  should_quit_ \/ (enable_performance_stats_ /\ Len(process_times_) >= TELEMETRY_CAP)

\* line 408: the entry check of process_audio
QuitRequested == should_quit_

\* lines 407-422: process_audio up to the sample loop.  The stream invokes it on
\* the data thread while it is streaming.  It returns at once when stop was
\* requested; otherwise it dequeues a buffer, which may be absent (null), carry
\* no data (returned at once) or carry a chunk of samples.
PA_Enter(chunks, maxCalls, maxSamples) ==
  /\ pa_pc = "idle"
  /\ stream_ = "live"
  /\ stream_state = "streaming"
  /\ IF QuitRequested
     THEN /\ calls_after_stop' = TRUE
          /\ UNCHANGED <<pa_pc, chunk, dequeued, queued, delivered>>
     ELSE /\ dequeued < maxCalls
          /\ \/ UNCHANGED <<pa_pc, chunk, dequeued, queued, delivered,
                            calls_after_stop>>
             \/ /\ dequeued' = dequeued + 1
                /\ queued' = QueueBuffer(queued)
                /\ UNCHANGED <<pa_pc, chunk, delivered, calls_after_stop>>
             \/ \E c \in chunks :
                  /\ Len(delivered) + Len(c) <= maxSamples
                  /\ dequeued' = dequeued + 1
                  /\ chunk' = c
                  /\ delivered' = delivered \o c
                  /\ pa_pc' = "loop"
                  /\ UNCHANGED <<queued, calls_after_stop>>
  /\ UNCHANGED <<lifeVars, pipeVars, process_times_, frames, events,
                 engine_calls, log_lines, signals, lost_signals, stats_printed,
                 entered_run, init_failed, quit_on_destroyed, held_at_stop,
                 frames_at_stop, elapsed, onset_thresholds, argVars, resVars>>

\* lines 425-542: one iteration of the sample loop
PA_Sample(outs) ==
  /\ pa_pc = "loop"
  /\ chunk # <<>>
  /\ LET x == Head(chunk)
         acc == [sample_accumulator_ EXCEPT ![accumulated_samples_ + 1] = x]
         n == accumulated_samples_ + 1
     IN /\ sample_accumulator_' = acc
        /\ chunk' = Tail(chunk)
        /\ IF FrameFull(n)
           THEN \E out \in outs : ProcessFrame(acc, out)
           ELSE /\ accumulated_samples_' = n
                /\ UNCHANGED <<input_buffer_, frames, frame_count_, total_beats_,
                               total_onsets_, smoothed_bpm_, recent_bpms_,
                               bpm_stability_, current_bpm, tempo_confidence,
                               is_onset, events, engine_calls, log_lines,
                               onset_thresholds>>
  /\ UNCHANGED <<lifeVars, pa_pc, process_times_, delivered, dequeued, queued,
                 signals, lost_signals, stats_printed, calls_after_stop,
                 entered_run, init_failed, quit_on_destroyed, held_at_stop,
                 frames_at_stop, elapsed, argVars, resVars>>

\* the list takes one duration more (<= for <)
TelemetryHasRoom_Inclusive(t) == Len(t) <= TELEMETRY_CAP

\* line 551: the telemetry list takes a duration only while below its cap
TelemetryHasRoom(t) == Len(t) < TELEMETRY_CAP

\* lines 544-554: the buffer goes back to the stream and the duration of the
\* callback, d, is recorded when statistics are enabled and the list has room
PA_Finish(durations) ==
  /\ pa_pc = "loop"
  /\ chunk = <<>>
  /\ pa_pc' = "idle"
  /\ queued' = QueueBuffer(queued)
  /\ \E d \in durations :
       /\ elapsed' = Append(elapsed, d)
       /\ process_times_' =
            IF enable_performance_stats_ /\ TelemetryHasRoom(process_times_)
            THEN Append(process_times_, d)
            ELSE process_times_
  /\ UNCHANGED <<lifeVars, pipeVars, chunk, delivered, frames, events,
                 engine_calls, log_lines, dequeued, signals, lost_signals,
                 stats_printed, calls_after_stop, entered_run, init_failed,
                 quit_on_destroyed, held_at_stop, frames_at_stop,
                 onset_thresholds, argVars, resVars>>


\* ------------------------------------------------------ the life cycle
AubioHandles == {"tempo", "input", "output", "onset", "pitch", "pitch_buffer"}

StreamStates == {"unconnected", "connecting", "paused", "streaming", "error"}

\* lines 232-237: stop().  pw_main_loop_quit clears the running flag of the loop
Stop ==
  /\ should_quit_' = TRUE
  /\ held_at_stop' = IF should_quit_ THEN held_at_stop ELSE accumulated_samples_
  /\ frames_at_stop' = IF should_quit_ THEN frames_at_stop ELSE Len(frames)
  /\ IF main_loop_ = "null"
     THEN UNCHANGED <<loop_running, quit_early, quit_on_destroyed>>
     ELSE /\ loop_running' = FALSE
          /\ quit_early' = (quit_early \/ main_pc \in {"init", "run"})
          /\ quit_on_destroyed' = (quit_on_destroyed \/ main_loop_ = "destroyed")

NoStop ==
  UNCHANGED <<should_quit_, loop_running, quit_early, quit_on_destroyed,
              held_at_stop, frames_at_stop>>

\* lines 653-654: main() installs the handlers
RegisterSignals ==
  /\ main_pc = "main"
  /\ main_pc' = "registered"
  /\ UNCHANGED <<init_pc, exit_code, should_quit_, instance_, enable_logging_,
                 enable_performance_stats_, enable_pitch_detection_, main_loop_,
                 context_, core_, stream_, aubio, log_open, loop_running,
                 quit_early, stream_state, pipeVars, cbVars, obsVars, argVars, resVars>>

\* lines 239-244: signal_handler, delivered at any moment once installed
Signal(maxSignals) ==
  /\ main_pc \notin {"args", "main", "exited"}
  /\ signals < maxSignals
  /\ signals' = signals + 1
  /\ IF instance_
     THEN Stop /\ UNCHANGED lost_signals
     ELSE /\ lost_signals' = lost_signals + 1
          /\ NoStop
  /\ UNCHANGED <<main_pc, init_pc, exit_code, instance_, enable_logging_,
                 enable_performance_stats_, enable_pitch_detection_, main_loop_,
                 context_, core_, stream_, aubio, log_open, stream_state,
                 pipeVars, cbVars, delivered, frames, events, engine_calls,
                 log_lines, dequeued, queued, stats_printed, calls_after_stop,
                 entered_run, init_failed, elapsed, onset_thresholds, argVars, resVars>>

\* lines 97-131: the constructor up to the call of initialize()
Construct ==
  /\ main_pc = "registered"
  /\ main_pc' = "init"
  /\ init_pc' = "log"
  /\ instance_' = TRUE
  /\ UNCHANGED <<exit_code, should_quit_, enable_logging_,
                 enable_performance_stats_, enable_pitch_detection_, main_loop_,
                 context_, core_, stream_, aubio, log_open, loop_running,
                 quit_early, stream_state, pipeVars, cbVars, obsVars, argVars, resVars>>

\* initialize() returns false: the constructor ignores the result (line 131)
InitFail ==
  /\ init_failed' = TRUE
  /\ init_pc' = "done"
  /\ main_pc' = "run"

InitNext(step) ==
  /\ init_pc' = step
  /\ UNCHANGED <<main_pc, init_failed>>

\* what an acquisition returns: a live handle when it succeeds, null otherwise
Acquired(ok) == IF ok THEN "live" ELSE "null"

\* the resources the detector owns: the log file, the PipeWire objects and the
\* aubio objects and buffers
Resources == {"log", "main_loop", "context", "core", "stream"} \cup AubioHandles

\* the member that holds the resource h (log_file_.is_open() for the log file)
Handle(h) ==
  CASE h = "log" -> IF log_open THEN "live" ELSE "null"
    [] h = "main_loop" -> main_loop_
    [] h = "context" -> context_
    [] h = "core" -> core_
    [] h = "stream" -> stream_
    [] OTHER -> aubio[h]

\* the counters c with one more for every resource of hs
CountedIn(c, hs) == [h \in Resources |-> IF h \in hs THEN c[h] + 1 ELSE c[h]]

\* cleanup() releases whatever the member holds, a null handle included
Held_Always(handle) == TRUE

\* lines 558, 562, 567, 572 and 577, and unique_ptr::reset: cleanup() releases a
\* resource only when its member holds something
Held(handle) == handle # "null"

\* lines 144-223 and 319-379: initialize() and setup_stream(), one acquisition
\* per step; oks is the set of outcomes the environment allows an acquisition
\* (TRUE: it succeeds, FALSE: it fails)
InitStep(oks) ==
  /\ main_pc = "init"
  /\ \/ /\ init_pc = "log"
        /\ IF enable_logging_ THEN log_open' \in oks ELSE log_open' = FALSE
        /\ InitNext("main_loop")
        /\ UNCHANGED <<main_loop_, context_, core_, stream_, aubio, stream_state>>
     \/ /\ init_pc = "main_loop"
        /\ \E ok \in oks :
             /\ main_loop_' = Acquired(ok)
             /\ IF ok THEN InitNext("context") ELSE InitFail
        /\ UNCHANGED <<context_, core_, stream_, aubio, log_open, stream_state>>
     \/ /\ init_pc = "context"
        /\ \E ok \in oks :
             /\ context_' = Acquired(ok)
             /\ IF ok THEN InitNext("core") ELSE InitFail
        /\ UNCHANGED <<main_loop_, core_, stream_, aubio, log_open, stream_state>>
     \/ /\ init_pc = "core"
        /\ \E ok \in oks :
             /\ core_' = Acquired(ok)
             /\ IF ok THEN InitNext("tempo") ELSE InitFail
        /\ UNCHANGED <<main_loop_, context_, stream_, aubio, log_open, stream_state>>
     \/ /\ init_pc = "tempo"
        /\ \E ok \in oks :
             /\ aubio' = [aubio EXCEPT !["tempo"] = Acquired(ok)]
             /\ IF ok THEN InitNext("buffers") ELSE InitFail
        /\ UNCHANGED <<main_loop_, context_, core_, stream_, log_open, stream_state>>
     \/ /\ init_pc = "buffers"
        /\ \E i, o \in oks :
             /\ aubio' = [aubio EXCEPT !["input"] = Acquired(i),
                                       !["output"] = Acquired(o)]
             /\ IF i /\ o THEN InitNext("onset") ELSE InitFail
        /\ UNCHANGED <<main_loop_, context_, core_, stream_, log_open, stream_state>>
     \/ /\ init_pc = "onset"
        /\ \E ok \in oks :
             /\ aubio' = [aubio EXCEPT !["onset"] = Acquired(ok)]
             /\ IF ok THEN InitNext("pitch") ELSE InitFail
        /\ UNCHANGED <<main_loop_, context_, core_, stream_, log_open, stream_state>>
     \/ /\ init_pc = "pitch"
        /\ IF enable_pitch_detection_
           THEN \E q, b \in oks :
                  /\ aubio' = [aubio EXCEPT !["pitch"] = Acquired(q),
                                            !["pitch_buffer"] = Acquired(b)]
                  /\ IF q /\ b THEN InitNext("stream_new") ELSE InitFail
           ELSE aubio' = aubio /\ InitNext("stream_new")
        /\ UNCHANGED <<main_loop_, context_, core_, stream_, log_open, stream_state>>
     \/ /\ init_pc = "stream_new"
        /\ \E ok \in oks :
             /\ stream_' = Acquired(ok)
             /\ IF ok THEN InitNext("stream_connect") ELSE InitFail
        /\ UNCHANGED <<main_loop_, context_, core_, aubio, log_open, stream_state>>
     \/ /\ init_pc = "stream_connect"
        /\ \E ok \in oks :
             IF ok
             THEN /\ stream_state' = "connecting"
                  /\ init_pc' = "done"
                  /\ main_pc' = "run"
                  /\ UNCHANGED init_failed
             ELSE stream_state' = stream_state /\ InitFail
        /\ UNCHANGED <<main_loop_, context_, core_, stream_, aubio, log_open>>
  /\ acquired' = CountedIn(acquired, {h \in Resources : /\ Handle(h) # "live"
                                                         /\ Handle(h)' = "live"})
  /\ UNCHANGED <<exit_code, should_quit_, instance_, enable_logging_,
                 enable_performance_stats_, enable_pitch_detection_, loop_running,
                 quit_early, pipeVars, cbVars, delivered, frames, events,
                 engine_calls, log_lines, dequeued, queued, signals, lost_signals,
                 stats_printed, calls_after_stop, entered_run, quit_on_destroyed,
                 held_at_stop, frames_at_stop, elapsed, onset_thresholds,
                 argVars, released>>

\* lines 225-230: run().  pw_main_loop_run raises the running flag on entry.
\* Whether a quit requested before the loop ran is overwritten by that or
\* honoured is up to the library: reruns is the set of values the flag may
\* take on entry after an early quit
Run(reruns) ==
  /\ main_pc = "run"
  /\ IF main_loop_ = "null"
     THEN /\ main_pc' = "stats"
          /\ UNCHANGED <<loop_running, entered_run>>
     ELSE /\ main_pc' = "loop"
          /\ entered_run' = TRUE
          /\ loop_running' \in (IF quit_early THEN reruns ELSE {TRUE})
  /\ UNCHANGED <<init_pc, exit_code, should_quit_, instance_, enable_logging_,
                 enable_performance_stats_, enable_pitch_detection_, main_loop_,
                 context_, core_, stream_, aubio, log_open, quit_early,
                 stream_state, pipeVars, cbVars, delivered, frames, events,
                 engine_calls, log_lines, dequeued, queued, signals, lost_signals,
                 stats_printed, calls_after_stop, init_failed, quit_on_destroyed,
                 held_at_stop, frames_at_stop, elapsed, onset_thresholds,
                 argVars, resVars>>

\* lines 381-400: on_state_changed, dispatched by the running main loop
StateChanged ==
  /\ main_pc = "loop"
  /\ loop_running
  /\ stream_ = "live"
  /\ stream_state # "unconnected"
  /\ \E st \in StreamStates \ {stream_state} :
       /\ stream_state' = st
       /\ IF st = "error"
          THEN Stop
          ELSE NoStop
  /\ UNCHANGED <<main_pc, init_pc, exit_code, instance_, enable_logging_,
                 enable_performance_stats_, enable_pitch_detection_, main_loop_,
                 context_, core_, stream_, aubio, log_open, pipeVars, cbVars,
                 delivered, frames, events, engine_calls, log_lines, dequeued,
                 queued, signals, lost_signals, stats_printed, calls_after_stop,
                 entered_run, init_failed, elapsed, onset_thresholds, argVars, resVars>>

\* line 229: pw_main_loop_run returns once the running flag is down
LoopExit ==
  /\ main_pc = "loop"
  /\ ~loop_running
  /\ main_pc' = "stats"
  /\ UNCHANGED <<init_pc, exit_code, should_quit_, instance_, enable_logging_,
                 enable_performance_stats_, enable_pitch_detection_, main_loop_,
                 context_, core_, stream_, aubio, log_open, loop_running,
                 quit_early, stream_state, pipeVars, cbVars, obsVars, argVars, resVars>>

\* lines 134-135 and 262-297: the destructor prints the final statistics
PrintFinalStats ==
  /\ main_pc = "stats"
  /\ main_pc' = "cleanup"
  /\ stats_printed' = enable_performance_stats_
  /\ UNCHANGED <<init_pc, exit_code, should_quit_, instance_, enable_logging_,
                 enable_performance_stats_, enable_pitch_detection_, main_loop_,
                 context_, core_, stream_, aubio, log_open, loop_running,
                 quit_early, stream_state, pipeVars, cbVars, delivered, frames,
                 events, engine_calls, log_lines, dequeued, queued, signals,
                 lost_signals, calls_after_stop, entered_run, init_failed,
                 quit_on_destroyed, held_at_stop, frames_at_stop, elapsed,
                 onset_thresholds, argVars, resVars>>

\* lines 557-592: cleanup(), in the order of the code.  pw_stream_destroy takes
\* the stream off the data thread, so it waits for a callback in progress.
Cleanup ==
  /\ \/ /\ main_pc = "cleanup"
        /\ main_pc' = "cleanup_stream"
        /\ log_open' = FALSE
        /\ released' = CountedIn(released, {h \in {"log"} : Held(Handle(h))})
        /\ UNCHANGED <<main_loop_, context_, core_, stream_, aubio, stream_state>>
     \/ /\ main_pc = "cleanup_stream"
        /\ pa_pc = "idle"
        /\ main_pc' = "cleanup_loop"
        /\ stream_' = "null"
        /\ stream_state' = "unconnected"
        /\ core_' = "null"
        /\ context_' = "null"
        /\ released' = CountedIn(released, {h \in {"stream", "core", "context"} :
                                              Held(Handle(h))})
        /\ UNCHANGED <<main_loop_, aubio, log_open>>
     \/ /\ main_pc = "cleanup_loop"
        /\ main_pc' = "cleanup_null"
        /\ main_loop_' = IF main_loop_ = "live" THEN "destroyed" ELSE main_loop_
        /\ released' = CountedIn(released, {h \in {"main_loop"} : Held(Handle(h))})
        /\ UNCHANGED <<context_, core_, stream_, aubio, log_open, stream_state>>
     \/ /\ main_pc = "cleanup_null"
        /\ main_pc' = "clear"
        /\ main_loop_' = "null"
        /\ aubio' = [h \in AubioHandles |-> "null"]
        /\ released' = CountedIn(released, {h \in AubioHandles : Held(Handle(h))})
        /\ UNCHANGED <<context_, core_, stream_, log_open, stream_state>>
  /\ UNCHANGED <<init_pc, exit_code, should_quit_, instance_, enable_logging_,
                 enable_performance_stats_, enable_pitch_detection_, loop_running,
                 quit_early, pipeVars, cbVars, obsVars, argVars, acquired>>

\* lines 137 and 665: the destructor clears instance_ and main() returns 0
Return ==
  /\ \/ /\ main_pc = "clear"
        /\ main_pc' = "return"
        /\ instance_' = FALSE
        /\ UNCHANGED exit_code
     \/ /\ main_pc = "return"
        /\ main_pc' = "exited"
        /\ exit_code' = 0
        /\ UNCHANGED instance_
  /\ UNCHANGED <<init_pc, should_quit_, enable_logging_,
                 enable_performance_stats_, enable_pitch_detection_, main_loop_,
                 context_, core_, stream_, aubio, log_open, loop_running,
                 quit_early, stream_state, pipeVars, cbVars, obsVars, argVars, resVars>>

\* ------------------------------------------------------ the command line
\* An unsigned long (64 bits) is the record [hi, mid, lo] standing for
\* hi * 2^32 + mid * 2^16 + lo; a uint32_t is such a record with hi = 0.
ULong(h, m, l) == [hi |-> h, mid |-> m, lo |-> l]

\* line 637: the unsigned long of std::stoul assigned to the uint32_t
\* buffer_size keeps its low 32 bits
Narrow32(v) == [v EXCEPT !.hi = 0]

\* line 638: buffer_size < 64 || buffer_size > 8192
SizeRejected(b) ==
  \/ b.hi = 0 /\ b.mid = 0 /\ b.lo < BUFFER_MIN
  \/ b.hi > 0 \/ b.mid > 0 \/ b.lo > BUFFER_MAX

\* The arguments main() tells apart.  A "number" starts with digits that
\* std::stoul converts to value, ignoring what follows them (tail: there are
\* characters after the digits); "junk" is any other argument not starting
\* with a dash (std::stoul throws invalid_argument); "overflow" is a number
\* beyond unsigned long (out_of_range); "dash" starts with a dash and is no
\* known flag.
Flag(k) == [kind |-> k, value |-> ULong(0, 0, 0), tail |-> FALSE]

Number(v, t) == [kind |-> "number", value |-> v, tail |-> t]

\* line 626, 640, 644, 649: main() returns
Exit(code) ==
  /\ main_pc' = "exited"
  /\ exit_code' = code
  /\ UNCHANGED arg_i

\* line 621: ++i
NextArg ==
  /\ arg_i' = arg_i + 1
  /\ UNCHANGED <<main_pc, exit_code>>

\* lines 621-651: one iteration of the argument loop, or its end
ParseArg ==
  /\ main_pc = "args"
  /\ IF arg_i > Len(argv)
     THEN /\ main_pc' = "main"
          /\ UNCHANGED <<arg_i, exit_code, enable_logging_,
                         enable_performance_stats_, enable_pitch_detection_,
                         buffer_size>>
     ELSE LET arg == argv[arg_i] IN
          CASE arg.kind = "help" ->
                 /\ Exit(0)
                 /\ UNCHANGED <<enable_logging_, enable_performance_stats_,
                                enable_pitch_detection_, buffer_size>>
            [] arg.kind = "no-log" ->
                 /\ enable_logging_' = FALSE
                 /\ NextArg
                 /\ UNCHANGED <<enable_performance_stats_,
                                enable_pitch_detection_, buffer_size>>
            [] arg.kind = "no-stats" ->
                 /\ enable_performance_stats_' = FALSE
                 /\ NextArg
                 /\ UNCHANGED <<enable_logging_, enable_pitch_detection_,
                                buffer_size>>
            [] arg.kind = "pitch" ->
                 /\ enable_pitch_detection_' = TRUE
                 /\ NextArg
                 /\ UNCHANGED <<enable_logging_, enable_performance_stats_,
                                buffer_size>>
            [] arg.kind = "no-visual" ->
                 /\ NextArg
                 /\ UNCHANGED <<enable_logging_, enable_performance_stats_,
                                enable_pitch_detection_, buffer_size>>
            [] arg.kind = "number" ->
                 /\ buffer_size' = Narrow32(arg.value)
                 /\ IF SizeRejected(buffer_size') THEN Exit(1) ELSE NextArg
                 /\ UNCHANGED <<enable_logging_, enable_performance_stats_,
                                enable_pitch_detection_>>
            [] arg.kind \in {"junk", "overflow", "dash"} ->
                 /\ Exit(1)
                 /\ UNCHANGED <<enable_logging_, enable_performance_stats_,
                                enable_pitch_detection_, buffer_size>>
  /\ UNCHANGED <<init_pc, should_quit_, instance_, main_loop_, context_, core_,
                 stream_, aubio, log_open, loop_running, quit_early,
                 stream_state, pipeVars, cbVars, obsVars, argv,
                 resVars>>

\* --------------------------------------------------------- initial states
\* no resource was obtained or given back yet
NoResources ==
  /\ acquired = [h \in Resources |-> 0]
  /\ released = [h \in Resources |-> 0]

\* main() is past its argument loop: the arguments are of no further use
ArgsDone ==
  /\ argv = <<>>
  /\ arg_i = 1
  /\ buffer_size = ULong(0, 0, BUFFER_DEFAULT)

\* the pipeline state the constructor sets up (lines 118-127), the telemetry
\* list apart
PipeFresh ==
  /\ sample_accumulator_ = [i \in 1..FrameSize |-> 0]
  /\ accumulated_samples_ = 0
  /\ input_buffer_ = [i \in 1..FrameSize |-> 0]
  /\ frame_count_ = 0
  /\ total_beats_ = 0
  /\ total_onsets_ = 0
  /\ smoothed_bpm_ = 0
  /\ recent_bpms_ = <<>>
  /\ bpm_stability_ = <<>>
  /\ current_bpm = 0
  /\ tempo_confidence = 0
  /\ is_onset = FALSE
  /\ pa_pc = "idle"
  /\ chunk = <<>>

PipeInit ==
  /\ PipeFresh
  /\ process_times_ = <<>>

\* nothing has been observed of the run, the callbacks apart
ObsFresh ==
  /\ delivered = <<>>
  /\ frames = <<>>
  /\ events = <<>>
  /\ engine_calls = 0
  /\ log_lines = 0
  /\ signals = 0
  /\ lost_signals = 0
  /\ stats_printed = FALSE
  /\ calls_after_stop = FALSE
  /\ init_failed = FALSE
  /\ quit_on_destroyed = FALSE
  /\ held_at_stop = 0
  /\ frames_at_stop = 0
  /\ onset_thresholds = <<>>

ObsInit ==
  /\ ObsFresh
  /\ dequeued = 0
  /\ queued = 0
  /\ elapsed = <<>>

\* main() has parsed its arguments (lines 615-651) and is about to install
\* the signal handlers
InitMain(logs, stats, pitches) ==
  /\ main_pc = "main"
  /\ init_pc = "none"
  /\ exit_code = -1
  /\ should_quit_ = FALSE
  /\ instance_ = FALSE
  /\ enable_logging_ \in logs
  /\ enable_performance_stats_ \in stats
  /\ enable_pitch_detection_ \in pitches
  /\ main_loop_ = "null"
  /\ context_ = "null"
  /\ core_ = "null"
  /\ stream_ = "null"
  /\ aubio = [h \in AubioHandles |-> "null"]
  /\ log_open = FALSE
  /\ loop_running = FALSE
  /\ quit_early = FALSE
  /\ stream_state = "unconnected"
  /\ entered_run = FALSE
  /\ PipeInit
  /\ ObsInit
  /\ ArgsDone
  /\ NoResources

\* the detector was constructed without failure, run() entered the main loop
\* and the stream reached the streaming state
Streaming(logs, stats, pitches) ==
  /\ main_pc = "loop"
  /\ init_pc = "done"
  /\ exit_code = -1
  /\ should_quit_ = FALSE
  /\ instance_ = TRUE
  /\ enable_logging_ \in logs
  /\ enable_performance_stats_ \in stats
  /\ enable_pitch_detection_ \in pitches
  /\ main_loop_ = "live"
  /\ context_ = "live"
  /\ core_ = "live"
  /\ stream_ = "live"
  /\ aubio = [h \in AubioHandles |->
                IF h \in {"pitch", "pitch_buffer"} /\ ~enable_pitch_detection_
                THEN "null" ELSE "live"]
  /\ log_open \in (IF enable_logging_ THEN BOOLEAN ELSE {FALSE})
  /\ loop_running = TRUE
  /\ quit_early = FALSE
  /\ stream_state = "streaming"
  /\ entered_run = TRUE
  /\ ArgsDone
  /\ acquired = [h \in Resources |-> IF Handle(h) = "live" THEN 1 ELSE 0]
  /\ released = [h \in Resources |-> 0]

\* the detector is streaming and no sample has arrived yet
InitStreaming(logs, stats, pitches) ==
  /\ Streaming(logs, stats, pitches)
  /\ PipeInit
  /\ ObsInit

\* the detector is streaming and calls callbacks have run to their end, each
\* on a chunk of zero samples, the k-th taking k time units
InitAfterCalls(logs, stats, pitches, calls) ==
  /\ Streaming(logs, stats, pitches)
  /\ PipeFresh
  /\ ObsFresh
  /\ dequeued = calls
  /\ queued = calls
  /\ elapsed = [k \in 1..calls |-> k]
  /\ process_times_ = IF enable_performance_stats_
                      THEN [k \in 1..Min(calls, TELEMETRY_CAP) |-> k]
                      ELSE <<>>

\* lines 615-619: main() is entered with the arguments args; nothing is
\* parsed or constructed yet
InitArgs(args) ==
  /\ main_pc = "args"
  /\ init_pc = "none"
  /\ exit_code = -1
  /\ should_quit_ = FALSE
  /\ instance_ = FALSE
  /\ enable_logging_ = TRUE
  /\ enable_performance_stats_ = TRUE
  /\ enable_pitch_detection_ = FALSE
  /\ main_loop_ = "null"
  /\ context_ = "null"
  /\ core_ = "null"
  /\ stream_ = "null"
  /\ aubio = [h \in AubioHandles |-> "null"]
  /\ log_open = FALSE
  /\ loop_running = FALSE
  /\ quit_early = FALSE
  /\ stream_state = "unconnected"
  /\ entered_run = FALSE
  /\ PipeInit
  /\ ObsInit
  /\ argv \in args
  /\ arg_i = 1
  /\ buffer_size = ULong(0, 0, BUFFER_DEFAULT)
  /\ NoResources


\* ------------------------------------------------------- specifications
\* an Analysis Engine answer: tempo in 1/BpmUnit, confidence in 1/100, onset flag
EngineOut(b, c, o) == [bpm |-> b, conf |-> c, onset |-> o]

\* a chunk of n samples of value x
Run_(n, x) == [i \in 1..n |-> x]

\* Spec: the whole life of the process, from main() to exit, with loud chunks of
\* one sample and of two frames and an engine that always reports a beat
LifeChunks == {Run_(1, 500), Run_(2 * FrameSize, 500)}

LifeOuts == {EngineOut(128 * BpmUnit, 80, TRUE)}

Init == InitMain(BOOLEAN, BOOLEAN, BOOLEAN)

LifeNext(oks, reruns) ==
  \/ RegisterSignals
  \/ Signal(MaxSignals)
  \/ Construct
  \/ InitStep(oks)
  \/ Run(reruns)
  \/ StateChanged
  \/ LoopExit
  \/ PrintFinalStats
  \/ Cleanup
  \/ Return
  \/ PA_Enter(LifeChunks, MaxCalls, MaxSamples)
  \/ PA_Sample(LifeOuts)
  \/ PA_Finish({1})

Next == LifeNext(BOOLEAN, BOOLEAN)

Spec == Init /\ [][Next]_vars


\* SpecLive: the same life cycle with the scheduling the program can rely on:
\* the main thread always takes its next step and a callback in progress runs
\* to its end.  Signals, stream state changes and the arrival of audio are up
\* to the environment and carry no fairness.  Every acquisition of
\* initialize() succeeds, and a quit requested before the loop ran is honoured.
InitLive == InitMain({TRUE}, {TRUE}, {FALSE})

NextLive == LifeNext({TRUE}, {FALSE})

LiveFairness ==
  /\ WF_vars(RegisterSignals)
  /\ WF_vars(Construct)
  /\ WF_vars(InitStep({TRUE}))
  /\ WF_vars(Run({FALSE}))
  /\ WF_vars(LoopExit)
  /\ WF_vars(PrintFinalStats)
  /\ WF_vars(Cleanup)
  /\ WF_vars(Return)
  /\ WF_vars(PA_Sample(LifeOuts))
  /\ WF_vars(PA_Finish({1}))

SpecLive == InitLive /\ [][NextLive]_vars /\ LiveFairness

\* The streaming specifications start from a detector that is running and
\* receiving audio; the environment delivers chunks and at most one signal.
StreamNext(chunks, maxCalls, maxSamples, outs) ==
  \/ Signal(1)
  \/ PA_Enter(chunks, maxCalls, maxSamples)
  \/ PA_Sample(outs)
  \/ PA_Finish({1})

\* SpecFrames: chunks of every length from 0 to two frames and a sample, over a
\* silent sample (0.002) and a sample exactly at the silence threshold (-0.01)
FrameChunks == SeqsOf({2, -10}, 0, 2 * FrameSize + 1)

FrameOuts == {EngineOut(128 * BpmUnit, 80, TRUE), EngineOut(128 * BpmUnit, 80, FALSE)}

InitFrames == InitStreaming({TRUE}, {TRUE}, {FALSE})

NextFrames == StreamNext(FrameChunks, MaxSamples, MaxSamples, FrameOuts)

SpecFrames == InitFrames /\ [][NextFrames]_vars

\* SpecDecide: loud frames, the engine answering every combination of onset
\* flag and confidence below, at and above the threshold
LoudFrame == [i \in 1..FrameSize |-> IF i = 1 THEN -500 ELSE 2]

SilentFrame == Run_(FrameSize, 2)

DecideOuts == {EngineOut(130 * BpmUnit, c, o) : c \in {20, 50, 51}, o \in BOOLEAN}

NextDecide ==
  StreamNext({LoudFrame}, MaxDecideFrames, MaxDecideFrames * FrameSize, DecideOuts)

SpecDecide == InitFrames /\ [][NextDecide]_vars

\* SpecSmooth: loud frames, the engine reporting tempi below, at, inside and
\* above the valid range, with and without an onset
SmoothOuts ==
  {EngineOut(b * BpmUnit, 80, o) : b \in {45, 60, 130, 160, 190, 200}, o \in BOOLEAN}

NextSmooth ==
  StreamNext({LoudFrame}, MaxDecideFrames, MaxDecideFrames * FrameSize, SmoothOuts)

SpecSmooth == InitFrames /\ [][NextSmooth]_vars

\* SpecHistory: whole frames, nearly all of them accepted beats at 128 BPM, so
\* that both histories fill up and evict; at most MaxRejects frames are silent
\* or rejected
RejectsLeft == frame_count_ - total_beats_ < MaxRejects

HistoryChunks == {LoudFrame} \cup (IF RejectsLeft THEN {SilentFrame} ELSE {})

HistoryOuts ==
  {EngineOut(128 * BpmUnit, 80, TRUE)}
    \cup (IF RejectsLeft THEN {EngineOut(128 * BpmUnit, 80, FALSE)} ELSE {})

NextHistory ==
  StreamNext(HistoryChunks, MaxBeatFrames, MaxBeatFrames * FrameSize, HistoryOuts)

InitHistory == InitStreaming({FALSE}, {TRUE}, {FALSE})

SpecHistory == InitHistory /\ [][NextHistory]_vars

\* SpecScenario: the end-to-end scenario.  Frames alternate between silent
\* (peak 0.002) and loud (peak 0.5), delivered one or two frames per chunk; the
\* engine reports 128 BPM, confidence 0.8 and an onset for every frame it sees
ScenarioChunks ==
  IF frame_count_ % 2 = 0
  THEN {SilentFrame, SilentFrame \o LoudFrame}
  ELSE {LoudFrame}

ScenarioOuts == {EngineOut(128 * BpmUnit, 80, TRUE)}

NextScenario ==
  StreamNext(ScenarioChunks, MaxScenarioFrames, MaxScenarioFrames * FrameSize,
             ScenarioOuts)

SpecScenario == InitFrames /\ [][NextScenario]_vars

\* SpecTelemetry: the telemetry list around its cap.  The run starts two
\* callbacks short of the cap and goes on beyond it; the k-th callback that
\* reaches the end of process_audio takes k time units, so that the order of
\* the list and what is dropped can be told; statistics are enabled or not
CallsBeforeCap == TELEMETRY_CAP - 2

TelemetryChunks == {<<>>, Run_(1, 500), LoudFrame}

TelemetryOuts == {EngineOut(128 * BpmUnit, 80, TRUE), EngineOut(128 * BpmUnit, 80, FALSE)}

InitTelemetry == InitAfterCalls({FALSE}, BOOLEAN, {FALSE}, CallsBeforeCap)

NextTelemetry ==
  \/ Signal(1)
  \/ PA_Enter(TelemetryChunks, TELEMETRY_CAP + MaxExtraCalls, MaxSamples)
  \/ PA_Sample(TelemetryOuts)
  \/ PA_Finish({Len(elapsed) + 1})

SpecTelemetry == InitTelemetry /\ [][NextTelemetry]_vars

\* SpecThreshold: whole frames of constant amplitude 0.002 (silent), 0.01,
\* 0.5, 1.0 and 2.0 and the mixed loud frame, so that the rms energy runs from
\* below to above the point where the cap of the threshold sets in
ThresholdChunks == {Run_(FrameSize, v) : v \in {2, 10, 500, -1000, 2000}} \cup {LoudFrame}

NextThreshold ==
  StreamNext(ThresholdChunks, MaxDecideFrames, MaxDecideFrames * FrameSize,
             ScenarioOuts)

SpecThreshold == InitHistory /\ [][NextThreshold]_vars

\* SpecVariance: loud frames; the engine reports 200 BPM (outside the valid
\* range: it starts the estimate and is ignored afterwards) or 70 BPM,
\* mostly as a beat, so that the stability window fills with values
\* that differ and with values that are equal
VarianceOuts ==
  {EngineOut(b * BpmUnit, 80, TRUE) : b \in {200, 70}}
    \cup {EngineOut(70 * BpmUnit, 80, FALSE)}

NextVariance ==
  StreamNext({LoudFrame}, MaxVarianceFrames, MaxVarianceFrames * FrameSize,
             VarianceOuts)

SpecVariance == InitHistory /\ [][NextVariance]_vars

\* SpecArgs: main() from its first line to the construction of the detector,
\* over every command line of up to MaxArgs arguments made of the flags, an
\* unknown dash argument, a word, a number too long for unsigned long, the
\* sizes 63, 64, 8192 and 8193, "128abc", 65664 (2^16 + 128) and 4294967424
\* (2^32 + 128)
ArgTokens ==
  {Flag(k) : k \in {"help", "no-log", "no-stats", "pitch", "no-visual",
                     "dash", "junk", "overflow"}}
    \cup {Number(ULong(0, 0, l), FALSE) : l \in {63, 64, 8192, 8193}}
    \cup {Number(ULong(0, 0, 128), TRUE),
          Number(ULong(0, 1, 128), FALSE),
          Number(ULong(1, 0, 128), FALSE)}

InitCommandLine == InitArgs(SeqsOf(ArgTokens, 0, MaxArgs))

NextArgs ==
  \/ ParseArg
  \/ RegisterSignals
  \/ Construct

SpecArgs == InitCommandLine /\ [][NextArgs]_vars

\* SpecRelease: the life cycle with every outcome of every acquisition of
\* initialize(), logging and pitch detection enabled or not, signals at any
\* moment and callbacks on chunks of one sample
ReleaseChunks == {Run_(1, 500)}

InitRelease == InitMain(BOOLEAN, {TRUE}, BOOLEAN)

NextRelease ==
  \/ RegisterSignals
  \/ Signal(MaxSignals)
  \/ Construct
  \/ InitStep(BOOLEAN)
  \/ Run(BOOLEAN)
  \/ StateChanged
  \/ LoopExit
  \/ PrintFinalStats
  \/ Cleanup
  \/ Return
  \/ PA_Enter(ReleaseChunks, MaxCalls, MaxCalls)
  \/ PA_Sample(LifeOuts)
  \/ PA_Finish({1})

SpecRelease == InitRelease /\ [][NextRelease]_vars

\* SpecAccumulator: chunks of every length from 0 to two frames and a sample,
\* each of silent samples (0.002) or of loud ones (-0.01), so that frames
\* start and end anywhere in a chunk and are skipped or analysed in any order
AccumulatorChunks == {Run_(n, x) : n \in 0..(2 * FrameSize + 1), x \in {2, -10}}

NextAccumulator == StreamNext(AccumulatorChunks, MaxSamples, MaxSamples, ScenarioOuts)

SpecAccumulator == InitHistory /\ [][NextAccumulator]_vars

\* SpecRange: loud frames; the engine reports tempi below the valid range
\* (45), just inside it (61 and 199), well inside it (128) and above it (250),
\* each as a beat, or 199 without an onset
RangeOuts ==
  {EngineOut(b * BpmUnit, 80, TRUE) : b \in {45, 61, 128, 199, 250}}
    \cup {EngineOut(199 * BpmUnit, 80, FALSE)}

NextRange ==
  StreamNext({LoudFrame}, MaxDecideFrames, MaxDecideFrames * FrameSize, RangeOuts)

SpecRange == InitHistory /\ [][NextRange]_vars

\* ------------------------------------------------------------ the claims
\* the samples read from the dequeued chunks so far
Consumed == SubSeq(delivered, 1, Len(delivered) - Len(chunk))

\* peak absolute sample of a frame, from its definition
PeakOf(f) == CHOOSE m \in {Abs(f[i]) : i \in DOMAIN f} :
               \A i \in DOMAIN f : Abs(f[i]) <= m

\* a step that hands a frame to input_buffer_
FrameStep == Len(frames') = Len(frames) + 1

\* a step in which the Analysis Engine is invoked
EngineStep == engine_calls' = engine_calls + 1

\* C1: whatever the chunk lengths, the frames handed downstream are exactly
\* the successive runs of FrameSize samples of the input, in arrival order:
\* floor(read / FrameSize) frames, frame k being samples (k-1)*FrameSize+1 ..
\* k*FrameSize, the remainder sitting in the accumulator at offset
\* read mod FrameSize (so the offset was reset after every full frame, skipped
\* or analysed); between callbacks every delivered sample has been read.
C1_FramesExact ==
  LET n == Len(Consumed) IN
  /\ Len(frames) = n \div FrameSize
  /\ \A k \in 1..Len(frames) :
       frames[k] = SubSeq(Consumed, (k - 1) * FrameSize + 1, k * FrameSize)
  /\ accumulated_samples_ = n % FrameSize
  /\ \A j \in 1..accumulated_samples_ :
       sample_accumulator_[j] = Consumed[n - accumulated_samples_ + j]
  /\ frame_count_ = Len(frames)
  /\ (pa_pc = "idle" => n = Len(delivered))

\* one chunk of two frames and a sample was read: it spanned two frame
\* boundaries and left a partly filled frame; one frame was skipped and one
\* analysed
C1_Witness ==
  /\ pa_pc = "idle"
  /\ dequeued = 1
  /\ Len(delivered) = 2 * FrameSize + 1
  /\ Len(frames) = 2
  /\ accumulated_samples_ = 1
  /\ engine_calls = 1

\* C2: a full frame whose peak is below 0.01 is skipped (no engine call,
\* smoothedBpm and both histories unchanged); a frame whose peak is 0.01 or
\* more is analysed.
C2_SilenceGate ==
  [][FrameStep =>
       LET f == frames'[Len(frames')] IN
       IF \A i \in DOMAIN f : Abs(f[i]) < 10
       THEN /\ engine_calls' = engine_calls
            /\ smoothed_bpm_' = smoothed_bpm_
            /\ recent_bpms_' = recent_bpms_
            /\ bpm_stability_' = bpm_stability_
       ELSE engine_calls' = engine_calls + 1]_vars

\* a silent frame was skipped after an estimate existed, and a frame whose peak
\* is exactly 0.01 was analysed
C2_Witness ==
  /\ Len(frames) = 3
  /\ PeakOf(frames[1]) = 10
  /\ PeakOf(frames[2]) = 2
  /\ PeakOf(frames[3]) = 10
  /\ engine_calls = 2
  /\ Len(recent_bpms_) = 2

\* C3: on an analysed frame a beat is accepted exactly when the engine
\* reported an onset and a confidence strictly above 0.5; otherwise the beat
\* counter and both histories are unchanged.
C3_BeatRule ==
  [][EngineStep =>
       LET accepted == is_onset' /\ tempo_confidence' > 50 IN
       /\ accepted <=> total_beats_' = total_beats_ + 1
       /\ accepted <=> Len(events') = Len(events) + 1
       /\ accepted => /\ recent_bpms_' # recent_bpms_
                      /\ bpm_stability_' # bpm_stability_
       /\ ~accepted => /\ total_beats_' = total_beats_
                       /\ recent_bpms_' = recent_bpms_
                       /\ bpm_stability_' = bpm_stability_]_vars

\* after an accepted beat, a frame with an onset and confidence exactly 0.5
\* was analysed and rejected
C3_Witness ==
  /\ engine_calls = 2
  /\ total_beats_ = 1
  /\ is_onset
  /\ tempo_confidence = 50
  /\ Len(recent_bpms_) = 1

\* C4: on every analysed frame, with b the reported tempo and s the previous
\* smoothedBpm: if 60 < b < 200 the new value is 0.7*s + 0.3*b (exactly when
\* both products are representable, otherwise within the rounding of the two
\* products); else if s = 0 it is b; else it is s.  The onset flag and the
\* acceptance of the beat play no part.
C4_Smoothing ==
  [][EngineStep =>
       LET b == current_bpm'
           s == smoothed_bpm_
           t == smoothed_bpm_'
       IN IF 60 * BpmUnit < b /\ b < 200 * BpmUnit
          THEN /\ 10 * t - (7 * s + 3 * b) \in -10..10
               /\ ((7 * s) % 10 = 0 /\ (3 * b) % 10 = 0) => 10 * t = 7 * s + 3 * b
          ELSE IF s = 0 THEN t = b ELSE t = s]_vars

\* from 0 a reading of 60 (not inside the range) gave 60; readings of 160 and
\* 190 gave 90 and 120; then 120 with 130 gave 123.0
C4_Witness ==
  /\ recent_bpms_ = <<60 * BpmUnit, 90 * BpmUnit, 120 * BpmUnit, 123 * BpmUnit>>
  /\ current_bpm = 130 * BpmUnit
  /\ engine_calls = 4


\* the smoothedBpm values of the accepted beats, in acceptance order
Accepted == [i \in 1..Len(events) |-> events[i].bpm]

\* the last min(k, n) elements of a sequence of length n
LastOf(q, k) == SubSeq(q, Len(q) - Min(k, Len(q)) + 1, Len(q))

\* C5: after n accepted beats BpmHistory is exactly the last min(20, n)
\* accepted smoothedBpm values in acceptance order and StabilityWindow the last
\* min(5, n) of them (a suffix of BpmHistory); neither exceeds its capacity.
C5_Histories ==
  /\ Len(events) = total_beats_
  /\ recent_bpms_ = LastOf(Accepted, 20)
  /\ bpm_stability_ = LastOf(Accepted, 5)
  /\ Len(recent_bpms_) <= 20
  /\ Len(bpm_stability_) <= 5
  /\ bpm_stability_ = LastOf(recent_bpms_, 5)

\* more than 20 beats were accepted, so both containers have evicted, and the
\* values at the front of the history differ, so the order is observable
C5_Witness ==
  /\ total_beats_ >= 22
  /\ Len(recent_bpms_) = 20
  /\ recent_bpms_[1] < recent_bpms_[2]
  /\ recent_bpms_[1] = Accepted[total_beats_ - 19]
  /\ frame_count_ > total_beats_

\* C6: in the alternating scenario, exactly one BeatEvent is emitted for each
\* loud frame (the even frames) and none for a silent one; the smoothedBpm
\* values of successive events never decrease, never exceed 128, and close in
\* on 128: each gap to 128 is at most 0.7 of the previous one, up to rounding.
C6_Scenario ==
  /\ Len(events) = frame_count_ \div 2
  /\ \A i \in 1..Len(events) :
       /\ events[i].frame = 2 * i
       /\ events[i].peak = 500
       /\ events[i].bpm <= 128 * BpmUnit
  /\ \A i \in 1..(Len(events) - 1) :
       /\ events[i].bpm <= events[i + 1].bpm
       /\ 10 * (128 * BpmUnit - events[i + 1].bpm)
            <= 7 * (128 * BpmUnit - events[i].bpm) + 10

\* twenty-four loud frames were analysed: the first event carries 38.4 and the
\* last one is within one representable step of 128
C6_Witness ==
  /\ Len(events) = 24
  /\ frame_count_ = 48
  /\ events[1].bpm = 384
  /\ events[24].bpm >= 128 * BpmUnit - 1


\* C7: once stop() has set the quit flag it is never cleared; every later
\* invocation of process_audio returns without dequeuing a buffer and without
\* changing the accumulator, smoothedBpm, the histories, the counters or the
\* telemetry list; and the samples of a partly accumulated frame held when the
\* flag was set are never handed to analysis.
C7_StopDiscards ==
  /\ [][should_quit_ => should_quit_']_vars
  /\ [][(should_quit_ /\ pa_pc = "idle") =>
          /\ pa_pc' = "idle"
          /\ UNCHANGED <<dequeued, pipeVars, process_times_>>]_vars
  /\ [](should_quit_ /\ held_at_stop > 0 => Len(frames) = frames_at_stop)

\* C8: after the quit flag is set no sample is appended to the accumulator and
\* no further frame is completed or analysed, wherever the stop request falls
\* inside a process_audio invocation.
C8_NoAssemblyAfterStop ==
  [][should_quit_ =>
       /\ accumulated_samples_' = accumulated_samples_
       /\ sample_accumulator_' = sample_accumulator_
       /\ frames' = frames
       /\ engine_calls' = engine_calls]_vars

\* C9: when a step of initialize() fails, the processing loop is never
\* entered, no frame is processed, and the process exits with a non-zero code.
C9_InitFailureFatal ==
  init_failed =>
    /\ ~entered_run
    /\ frame_count_ = 0
    /\ (main_pc = "exited" => exit_code # 0)

\* C10: a signal delivered at any point after the handlers are installed leads
\* to the process leaving the main loop, printing the final statistics,
\* releasing its resources and exiting with code 0.
C10_ShutdownCompletes ==
  (signals > 0) ~>
    /\ main_pc = "exited"
    /\ exit_code = 0
    /\ stats_printed
    /\ main_loop_ = "null"
    /\ stream_ = "null"

\* a state change reported to on_state_changed by the running main loop
StateReport == main_pc = "loop" /\ stream_state' # stream_state

\* C11: whenever the Audio Source reports a transition into the error state,
\* or that the device was disconnected mid-stream (streaming to unconnected),
\* stop() is called: the quit flag is set and the main loop is asked to quit;
\* a transition to connecting, paused or streaming never changes the quit flag.
C11_ErrorsStop ==
  [][StateReport =>
       /\ (\/ stream_state' = "error"
           \/ stream_state = "streaming" /\ stream_state' = "unconnected")
            => should_quit_' /\ ~loop_running'
       /\ stream_state' \in {"connecting", "paused", "streaming"}
            => should_quit_' = should_quit_]_vars

\* C12: every buffer obtained from the stream is handed back exactly once
\* before the callback returns, and none that was not obtained: between
\* callbacks as many buffers were returned as were dequeued, and inside the
\* sample loop exactly the one being read is outstanding.  This holds for a
\* buffer without data, a chunk of zero samples, frames taking the skip path
\* and chunks holding several frames.
C12_BuffersReturned ==
  /\ queued <= dequeued
  /\ pa_pc = "idle" => queued = dequeued
  /\ pa_pc = "loop" => queued = dequeued - 1

\* two buffers were dequeued and both are back: one carried no data (only one
\* callback reached the end of process_audio), the other a chunk of two
\* frames and a sample, one frame skipped and one analysed
C12_Witness ==
  /\ pa_pc = "idle"
  /\ dequeued = 2
  /\ queued = 2
  /\ Len(elapsed) = 1
  /\ Len(delivered) = 2 * FrameSize + 1
  /\ Len(frames) = 2
  /\ engine_calls = 1

\* C13: the telemetry list never holds more than 1000 durations; with
\* statistics enabled it is exactly the durations of the first min(1000, k)
\* callbacks that reached the recording step, in order, k being the number of
\* those callbacks (later ones are dropped, nothing is evicted); with
\* statistics disabled it stays empty.
C13_TelemetryCapped ==
  /\ Len(process_times_) <= 1000
  /\ enable_performance_stats_ =>
       process_times_ = SubSeq(elapsed, 1, Min(1000, Len(elapsed)))
  /\ ~enable_performance_stats_ => process_times_ = <<>>

\* 1002 callbacks reached the recording step: the list holds the first 1000
\* durations and the last two were dropped
C13_Witness ==
  /\ enable_performance_stats_
  /\ Len(elapsed) = 1002
  /\ Len(process_times_) = 1000
  /\ process_times_[1] = 1
  /\ process_times_[1000] = 1000
  /\ pa_pc = "idle"

\* the decision state of the pipeline and the BeatEvents emitted so far
Decision ==
  [offset |-> accumulated_samples_,
   acc |-> sample_accumulator_,
   smoothed |-> smoothed_bpm_,
   history |-> recent_bpms_,
   window |-> bpm_stability_,
   beats |-> total_beats_,
   onsets |-> total_onsets_,
   frames |-> frame_count_,
   emitted |-> [i \in 1..Len(events) |->
                 [frame |-> events[i].frame, bpm |-> events[i].bpm,
                  conf |-> events[i].conf]]]

\* the decision state that follows d when the sample x is read and the engine
\* answers out for a frame it is given: a function of d, x and out alone
DecisionAfter(d, x, out) ==
  LET acc == [d.acc EXCEPT ![d.offset + 1] = x]
      loud == \E i \in 1..FrameSize : Abs(acc[i]) >= 10
      s == IF 60 * BpmUnit < out.bpm /\ out.bpm < 200 * BpmUnit
           THEN RoundDiv(7 * d.smoothed, 10) + RoundDiv(3 * out.bpm, 10)
           ELSE IF d.smoothed = 0 THEN out.bpm ELSE d.smoothed
      beat == out.onset /\ out.conf > 50
  IN IF d.offset + 1 < FrameSize
     THEN [d EXCEPT !.acc = acc, !.offset = d.offset + 1]
     ELSE IF ~loud
     THEN [d EXCEPT !.acc = acc, !.offset = 0, !.frames = @ + 1]
     ELSE [d EXCEPT !.acc = acc, !.offset = 0, !.frames = @ + 1,
                    !.onsets = @ + 1, !.smoothed = s,
                    !.beats = IF beat THEN @ + 1 ELSE @,
                    !.history = IF beat THEN LastOf(Append(@, s), 20) ELSE @,
                    !.window = IF beat THEN LastOf(Append(@, s), 5) ELSE @,
                    !.emitted = IF beat
                                THEN Append(@, [frame |-> d.frames + 1, bpm |-> s,
                                                conf |-> out.conf])
                                ELSE @]

\* the callback would be handed a buffer: the stream is streaming, no callback
\* is in progress, no stop was requested and the run has callbacks left
BufferOffered ==
  /\ pa_pc = "idle"
  /\ stream_ = "live"
  /\ stream_state = "streaming"
  /\ ~should_quit_
  /\ dequeued < TELEMETRY_CAP + MaxExtraCalls

\* C14: telemetry is purely observational.  Whether statistics are enabled
\* or not and whether the list is full or not, (1) a step that reads a sample
\* takes the decision state and the emitted BeatEvents to a value that depends
\* only on that state, the sample and the engine's answer, and every other
\* step leaves them alone; (2) recording a duration changes none of them;
\* (3) an offered buffer is always taken.  Two runs fed the same chunks and
\* the same engine answers, one with statistics and one without, therefore
\* pass through the same decision states and emit the same events.
C14_TelemetryObservational ==
  /\ [][IF pa_pc = "loop" /\ chunk # <<>> /\ chunk' = Tail(chunk)
         THEN Decision' = DecisionAfter(Decision, Head(chunk),
                                        EngineOut(current_bpm', tempo_confidence',
                                                  is_onset'))
         ELSE Decision' = Decision]_vars
  /\ [][process_times_' # process_times_ => Decision' = Decision]_vars
  /\ [](BufferOffered => ENABLED (NextTelemetry /\ pa_pc' = "loop"))

\* with statistics enabled, 1002 callbacks ran to their end and the last four
\* brought three loud frames: the list was full (1000 durations) when the
\* third frame was analysed and accepted as a beat
C14_Witness ==
  /\ enable_performance_stats_
  /\ pa_pc = "idle"
  /\ dequeued = 1002
  /\ Len(elapsed) = 1002
  /\ Len(process_times_) = 1000
  /\ Len(delivered) = 3 * FrameSize
  /\ total_beats_ = 3
  /\ Len(events) = 3

\* sum of the squared samples of a frame (in 1/10^6)
SquareSum(f) == SumSeq([i \in DOMAIN f |-> f[i] * f[i]])

\* e (in 1/1000) is 0.15 * rmsEnergy of the frame f to within one unit:
\* (e - 1)^2 <= 0.0225 * SquareSum / n <= (e + 1)^2
NearGain(e, f) ==
  /\ 400 * Len(f) * Max(e - 1, 0) * Max(e - 1, 0) <= 9 * SquareSum(f)
  /\ 9 * SquareSum(f) <= 400 * Len(f) * (e + 1) * (e + 1)

\* C15: the threshold handed to the onset engine for an analysed frame is
\* min(0.15 + 0.15 * rmsEnergy, 0.30) of that frame to the resolution of
\* 1/1000 (below 0.30 it is 0.15 plus 0.15 * rmsEnergy; it is 0.30 only when
\* 0.15 * rmsEnergy reaches 0.15); it lies between 0.15 and 0.30, never decreases when rmsEnergy
\* grows, is the same for the same frame wherever it comes in the run, and is
\* set for the analysed frames only, never for a skipped one.
C15_AdaptiveThreshold ==
  /\ Len(onset_thresholds) = engine_calls
  /\ {onset_thresholds[k].frame : k \in DOMAIN onset_thresholds}
       = {n \in DOMAIN frames : \E i \in DOMAIN frames[n] : Abs(frames[n][i]) >= 10}
  /\ \A k \in DOMAIN onset_thresholds :
       LET t == onset_thresholds[k].threshold
           f == frames[onset_thresholds[k].frame]
       IN /\ t >= 150 /\ t <= 300
          /\ t < 300 => NearGain(t - 150, f)
          /\ t = 300 => 9 * SquareSum(f) >= 400 * Len(f) * 149 * 149
  /\ \A j, k \in DOMAIN onset_thresholds :
       SquareSum(frames[onset_thresholds[j].frame])
         <= SquareSum(frames[onset_thresholds[k].frame])
       => onset_thresholds[j].threshold <= onset_thresholds[k].threshold

\* four frames came in: amplitude 0.5 (threshold 0.225), a silent one (no
\* threshold set), amplitude 2.0 (0.45 capped to 0.30) and amplitude 0.5 again
\* (0.225 again)
C15_Witness ==
  /\ frames = <<Run_(FrameSize, 500), Run_(FrameSize, 2),
                Run_(FrameSize, 2000), Run_(FrameSize, 500)>>
  /\ onset_thresholds = <<[frame |-> 1, threshold |-> 225],
                          [frame |-> 3, threshold |-> 300],
                          [frame |-> 4, threshold |-> 225]>>

\* n^2 times the sum of the squared deviations of w from its mean
ScaledDeviations(w) ==
  LET n == Len(w)
      sum == SumSeq(w)
  IN SumSeq([j \in DOMAIN w |-> (n * w[j] - sum) * (n * w[j] - sum)])

\* a step that accepts a beat
BeatStep == Len(events') = Len(events) + 1

\* C16: the variance carried by an accepted beat is the population standard
\* deviation sqrt(mean((x - mean)^2)), divisor n, of the StabilityWindow as it
\* is after that beat's smoothedBpm was appended and the oldest value evicted
\* (to the resolution of 1/10 BPM, truncated); it is 0 when all values of the
\* window are equal; and the beat is flagged stable exactly when the standard
\* deviation is strictly less than 5.0.
C16_Variance ==
  [][BeatStep =>
       LET w == bpm_stability_'
           n == Len(w)
           sq == ScaledDeviations(w)
           e == events'[Len(events')]
           v == e.variance
       IN /\ w[n] = e.bpm
          /\ w = LastOf(Append(bpm_stability_, e.bpm), 5)
          /\ v >= 0
          /\ v * v * n * n * n <= sq
          /\ sq < (v + 1) * (v + 1) * n * n * n
          /\ (\A j \in DOMAIN w : w[j] = w[1]) => v = 0
          /\ e.stable <=> sq < 50 * 50 * n * n * n]_vars

\* six beats: the estimate started at 200 and one reading of 70 took it to
\* 161, so the second beat saw the window {200, 161} (deviation 19.5, not
\* stable); four ignored readings later the window is five times 161 and the
\* sixth beat carries variance 0 and is stable
C16_Witness ==
  /\ Len(events) = 6
  /\ events[2].variance = 195
  /\ ~events[2].stable
  /\ bpm_stability_ = [j \in 1..5 |-> 161 * BpmUnit]
  /\ events[6].variance = 0
  /\ events[6].stable

\* C17: with logging enabled and the log file open, a data line is written in
\* exactly the steps that accept a beat (an analysed frame with an onset and a
\* confidence above 0.5), one line each, and in no other step; so the number
\* of data lines equals the beat counter and the number of BeatEvents, after
\* any sequence of skipped, rejected and accepted frames.
C17_LogLines ==
  /\ []((enable_logging_ /\ log_open) =>
          /\ log_lines = total_beats_
          /\ log_lines = Len(events))
  /\ [][(enable_logging_ /\ log_open) =>
          IF EngineStep /\ is_onset' /\ tempo_confidence' > 50
          THEN log_lines' = log_lines + 1
          ELSE log_lines' = log_lines]_vars

\* the log file is open and three frames came in: one was skipped, one was
\* analysed and rejected, one was accepted and logged
C17_Witness ==
  /\ enable_logging_
  /\ log_open
  /\ Len(frames) = 3
  /\ engine_calls = 2
  /\ total_beats_ = 1
  /\ log_lines = 1

\* an argument that is an integer with a value in [64, 8192]
ValidSize(a) ==
  /\ a.kind = "number"
  /\ ~a.tail
  /\ a.value.hi = 0 /\ a.value.mid = 0
  /\ a.value.lo >= 64 /\ a.value.lo <= 8192

\* a positional argument that is no valid size, or an unknown dash argument
Refused(a) ==
  \/ a.kind \in {"junk", "overflow", "dash"}
  \/ a.kind = "number" /\ ~ValidSize(a)

\* the arguments that decide the exit: refused ones and --help
Decisive == {i \in DOMAIN argv : Refused(argv[i]) \/ argv[i].kind = "help"}

FirstDecisive == CHOOSE i \in Decisive : \A j \in Decisive : i <= j

\* C18: when the command line holds a positional argument that is not an
\* integer in [64, 8192] (whatever its numeric value, values beyond 2^32
\* included) or an unknown dash argument, main() exits with code 1 and never
\* constructs the detector; when it holds --help or -h, it exits with code 0
\* (of a refused argument and --help, the one that comes first decides); and
\* the detector is only constructed with a buffer size in [64, 8192].
C18_ArgsValidated ==
  /\ (Decisive # {} /\ Refused(argv[FirstDecisive])) =>
       /\ main_pc \in {"args", "exited"}
       /\ ~instance_
       /\ main_pc = "exited" => exit_code = 1
  /\ (Decisive # {} /\ argv[FirstDecisive].kind = "help") =>
       /\ main_pc \in {"args", "exited"}
       /\ main_pc = "exited" => exit_code = 0
  /\ instance_ =>
       /\ buffer_size.hi = 0 /\ buffer_size.mid = 0
       /\ buffer_size.lo >= 64 /\ buffer_size.lo <= 8192

\* the frames assembled so far that passed the silence gate (peak >= 0.01)
PassedGate ==
  {n \in DOMAIN frames : \E i \in DOMAIN frames[n] : Abs(frames[n][i]) >= 10}

\* C19: the onset counter grows by one in every step that analyses a frame,
\* whether or not the engine reported an onset and whether or not a beat was
\* accepted, and in no other step; after any sequence of frames it equals the
\* number of frames that passed the silence gate.
C19_OnsetCounter ==
  /\ [](total_onsets_ = Cardinality(PassedGate))
  /\ [][IF EngineStep THEN total_onsets_' = total_onsets_ + 1
                      ELSE total_onsets_' = total_onsets_]_vars

\* three frames: one skipped, one analysed without an onset, one accepted as a
\* beat; the onset counter stands at two
C19_Witness ==
  /\ Len(frames) = 3
  /\ Cardinality(PassedGate) = 2
  /\ total_onsets_ = 2
  /\ total_beats_ = 1
  /\ pa_pc = "idle"

\* C20: the processed-frame counter grows once per processed (non-skipped)
\* frame: after any sequence of frames it equals the number of frames that
\* passed the silence gate, and so always equals the onset counter.
C20_FrameCounter ==
  /\ frame_count_ = Cardinality(PassedGate)
  /\ frame_count_ = total_onsets_

\* the destructor's cleanup() has run to its end
CleanedUp == main_pc \in {"clear", "return", "exited"}

\* C21: whichever step of initialize() failed, or none: no resource is ever
\* obtained twice or given back more often than it was obtained (so nothing
\* that was never acquired is released and nothing is released twice), and
\* once cleanup() has run every resource that was acquired has been released
\* exactly once and every handle is null (the log file closed).
C21_ReleaseComplete ==
  /\ \A h \in Resources :
       /\ acquired[h] <= 1
       /\ released[h] <= acquired[h]
  /\ CleanedUp =>
       \A h \in Resources :
         /\ released[h] = acquired[h]
         /\ Handle(h) = "null"

\* the log file was opened and initialize() failed at the onset detector: the
\* process has exited having released the log file, the three PipeWire objects
\* before the stream, the tempo detector and both buffers once each, and
\* neither an onset detector nor a stream
C21_Witness ==
  /\ main_pc = "exited"
  /\ init_failed
  /\ \A h \in {"log", "main_loop", "context", "core", "tempo", "input", "output"} :
       acquired[h] = 1 /\ released[h] = 1
  /\ \A h \in {"onset", "pitch", "pitch_buffer", "stream"} :
       acquired[h] = 0 /\ released[h] = 0

\* a step of the sample loop: one sample is written into the accumulator
SampleStep == pa_pc = "loop" /\ chunk # <<>> /\ chunk' = Tail(chunk)

\* C22: every write into the accumulator goes to an offset in
\* [0, FrameSize - 1] (the slot written is the one at the offset held before
\* the step, and the accumulator keeps its FrameSize slots); a frame is handed
\* to analysis only by the write that takes the offset to exactly FrameSize,
\* and it has FrameSize samples; and the offset is below FrameSize whenever
\* no frame is being handled, so at the start and at the end of every
\* invocation of process_audio, whatever the chunk lengths and whichever
\* frames are skipped.
C22_AccumulatorBounds ==
  /\ [](accumulated_samples_ >= 0 /\ accumulated_samples_ < FrameSize)
  /\ [](Len(sample_accumulator_) = FrameSize)
  /\ [][SampleStep =>
          /\ accumulated_samples_ \in 0..(FrameSize - 1)
          /\ sample_accumulator_'[accumulated_samples_ + 1] = Head(chunk)
          /\ \A j \in 1..FrameSize :
               j # accumulated_samples_ + 1
                 => sample_accumulator_'[j] = sample_accumulator_[j]]_vars
  /\ [][FrameStep =>
          /\ SampleStep
          /\ accumulated_samples_ + 1 = FrameSize
          /\ Len(frames'[Len(frames')]) = FrameSize]_vars
  /\ [][(SampleStep /\ accumulated_samples_ + 1 < FrameSize) =>
          /\ frames' = frames
          /\ accumulated_samples_' = accumulated_samples_ + 1]_vars

\* three callbacks ran to their end on chunks of three silent samples, one
\* loud sample and two silent ones: the first frame was skipped, the second,
\* completed by the second chunk, was analysed, the third was skipped, and the
\* offset is back at 0
C22_Witness ==
  /\ pa_pc = "idle"
  /\ Len(elapsed) = 3
  /\ delivered = <<2, 2, 2, -10, 2, 2>>
  /\ Len(frames) = 3
  /\ engine_calls = 1
  /\ events[1].frame = 2
  /\ accumulated_samples_ = 0

\* a tempo strictly inside the valid range (60, 200)
Inside(bpm) == bpm > 60 * BpmUnit /\ bpm < 200 * BpmUnit

\* C23 (as claimed): every smoothedBpm value appended to BpmHistory and
\* StabilityWindow and carried by a BeatEvent lies strictly inside (60, 200).
C23_AlwaysInside ==
  /\ \A i \in DOMAIN events : Inside(events[i].bpm)
  /\ \A i \in DOMAIN recent_bpms_ : Inside(recent_bpms_[i])
  /\ \A i \in DOMAIN bpm_stability_ : Inside(bpm_stability_[i])

\* C23 (amended): the value appended to BpmHistory and StabilityWindow and
\* carried by the BeatEvent is the smoothedBpm of that frame.  The valid range
\* is closed under smoothing: once smoothedBpm is strictly inside (60, 200) it
\* stays there, so an appended value outside the range is never preceded by
\* one inside it.  Before that it can lie outside: from the initial 0 a
\* reading b inside the range gives 0.3 * b, which is below 60, and a reading
\* outside the range is taken as it is.
C23_RangeClosed ==
  /\ [][Inside(smoothed_bpm_) => Inside(smoothed_bpm_')]_vars
  /\ [](\A i, j \in DOMAIN events :
          (j < i /\ Inside(events[j].bpm)) => Inside(events[i].bpm))
  /\ [][BeatStep =>
          /\ events'[Len(events')].bpm = smoothed_bpm_'
          /\ recent_bpms_'[Len(recent_bpms_')] = smoothed_bpm_'
          /\ bpm_stability_'[Len(bpm_stability_')] = smoothed_bpm_']_vars
  /\ [][(EngineStep /\ smoothed_bpm_ = 0) =>
          IF Inside(current_bpm')
          THEN /\ 10 * smoothed_bpm_' - 3 * current_bpm' \in -5..5
               /\ smoothed_bpm_' < 60 * BpmUnit
          ELSE smoothed_bpm_' = current_bpm']_vars

\* four beats: from 0 a reading of 199 gave 59.7 (outside), a second one
\* 101.5 (inside); then a reading of 250 was ignored and one of 61 gave 89.4
C23_Witness ==
  /\ Len(events) = 4
  /\ events[1].bpm = 597
  /\ events[2].bpm = 1015
  /\ events[3].bpm = 1015
  /\ events[4].bpm = 894
  /\ recent_bpms_ = <<597, 1015, 1015, 894>>
  /\ current_bpm = 61 * BpmUnit

\* C24: the sentinel 999 is never the variance of an accepted beat: at every
\* accepted beat the StabilityWindow read by get_bpm_variance (for the
\* stability flag and, unchanged in between, for the log line) holds between
\* one and five values, the beat's own smoothedBpm last, so the branch for an
\* empty window is not taken; and the first accepted beat of a run, whose
\* window holds that one value, has variance 0 and is flagged stable.
C24_NoSentinel ==
  /\ [](\A i \in DOMAIN events : events[i].variance # 999 * BpmUnit)
  /\ [][BeatStep =>
          /\ Len(bpm_stability_') \in 1..5
          /\ bpm_stability_'[Len(bpm_stability_')] = events'[Len(events')].bpm
          /\ events'[Len(events')].variance < 999 * BpmUnit]_vars
  /\ [][(BeatStep /\ events = <<>>) =>
          /\ bpm_stability_ = <<>>
          /\ Len(bpm_stability_') = 1
          /\ events'[1].variance = 0
          /\ events'[1].stable]_vars

\* the first frame was analysed and rejected, leaving an estimate of 21.0 and
\* an empty window; the second frame was the first accepted beat: 35.7 BPM,
\* variance 0, stable
C24_Witness ==
  /\ engine_calls = 2
  /\ Len(events) = 1
  /\ events[1].frame = 2
  /\ events[1].bpm = 357
  /\ events[1].variance = 0
  /\ events[1].stable
  /\ bpm_stability_ = <<357>>

\* a signal is delivered: signal_handler runs
SignalStep == signals' = signals + 1

\* C25: wherever a signal falls between the installation of the handlers and
\* the exit of the process, signal_handler either finds no instance and
\* changes nothing, or calls stop() on an instance whose main_loop_ is null or
\* a main loop that still exists; pw_main_loop_quit is never called on a main
\* loop that cleanup() has destroyed.
C25_HandlerSafe ==
  /\ [](~quit_on_destroyed)
  /\ [][SignalStep =>
          IF instance_
          THEN /\ should_quit_'
               /\ main_loop_ \in {"null", "live"}
          ELSE UNCHANGED <<should_quit_, loop_running, quit_early>>]_vars

====
